---- MODULE Spec2Model ----
(***************************************************************************)
(* Model of packages/mcp/api/server.ts: the MCP tool host with the tools   *)
(* echo, getQuoteCode and sendPaymentCode, the prompt assembly of          *)
(* generateCode and the call to the text-generation collaborator.          *)
(*                                                                         *)
(* Text is modelled as a sequence of atoms (strings).  Every occurrence of *)
(* a placeholder token or of an endpoint path in the source text is an     *)
(* atom of its own, and so is the language display name of a result title, *)
(* so "text contains s" is "s is an atom of text".                         *)
(***************************************************************************)
EXTENDS Integers, Sequences, FiniteSets, TLC

\* ---------------------------------------------------------------- bounds
\* Number of tool invocations the host serves in a run; they may overlap.
MaxInvocations == 2

\* Longest template drawn for the assembly of arbitrary templates.
MaxTemplateLen == 3

\* ------------------------------------------------------------ text atoms
Contains(text, s) == \E k \in 1..Len(text) : text[k] = s

Count(text, s) == Cardinality({k \in 1..Len(text) : text[k] = s})

\* the concatenation of a sequence of texts
RECURSIVE Concat(_)
Concat(seqs) ==
    IF Len(seqs) = 0 THEN <<>>
    ELSE IF Len(seqs) = 1 THEN seqs[1]
    ELSE LET half == Len(seqs) \div 2
         IN  Concat(SubSeq(seqs, 1, half)) \o Concat(SubSeq(seqs, half + 1, Len(seqs)))

TokEndpoint == "{{ENDPOINT}}"
TokLanguage == "{{LANGUAGE}}"
TokLanguageExtension == "{{LANGUAGE_EXTENSION}}"
TokOpenApiSpec == "{{OPENAPI_SPEC}}"
TokEndpointSpecificInfo == "{{ENDPOINT_SPECIFIC_INFO}}"

Placeholders ==
    {TokEndpoint, TokLanguage, TokLanguageExtension, TokOpenApiSpec,
     TokEndpointSpecificInfo}

QuotesPath == "/quotes"
PaymentsPath == "/payments"

\* ------------------------------------------------------ LANGUAGE_CONFIG
LANGUAGE_CONFIG ==
    [typescript |-> [extension |-> "ts", name |-> "TypeScript"],
     javascript |-> [extension |-> "js", name |-> "JavaScript"],
     python |-> [extension |-> "py", name |-> "Python"],
     go |-> [extension |-> "go", name |-> "Go"],
     rust |-> [extension |-> "rs", name |-> "Rust"],
     cpp |-> [extension |-> "cpp", name |-> "C++"]]

SupportedLanguage == DOMAIN LANGUAGE_CONFIG

\* ------------------------------------------------------ getPromptTemplate
ForbidHttpServer == "- DO NOT generate any HTTP server code"
ForbidDemoEndpoints == "- DO NOT generate any demo endpoints (/demo, /, /quote, etc.)"
ForbidRoutes == "- DO NOT generate any server routes or handlers  "
ForbidServe == "- DO NOT generate any Bun.serve() or Express server code"
ForbidPortLog == "- DO NOT generate any console.log statements about \"running on port\""

\* mutant: the fallback template of the commented-out file read
getPromptTemplate_Fallback ==
    <<"Generate code for the ", TokEndpoint, " endpoint in ", TokLanguage, ".">>

getPromptTemplate ==
    << "You are an expert software engineer generating a CLIENT LIBRARY for the ",
       TokEndpoint, " endpoint of the Tesser FX API.",
       "CRITICAL INSTRUCTIONS:",
       "- Generate ONLY a client function or class for calling ", TokEndpoint,
       ForbidHttpServer,
       ForbidDemoEndpoints,
       ForbidRoutes,
       ForbidServe,
       ForbidPortLog,
       "- The code must compile without any TypeScript errors",
       "- Focus ONLY on the client-side API call for ", TokEndpoint,
       "TESSER FX API DETAILS:",
       "- Base URL: https://api.tesser.com/v1",
       "- Authentication: Bearer token in Authorization header",
       "- Content-Type: application/json",
       "TARGET ENDPOINT: ", TokEndpoint,
       TokOpenApiSpec,
       "SPECIFIC REQUIREMENTS FOR ", TokEndpoint, ":",
       TokEndpointSpecificInfo,
       "OUTPUT REQUIREMENTS:",
       "1. Generate a client function or class for ", TokEndpoint, " in ", TokLanguage,
       "2. Include proper TypeScript types (if ", TokLanguage,
       " supports them) matching the OpenAPI schemas EXACTLY",
       "3. Handle authentication via Bearer token",
       "4. Support optional Idempotency-Key header",
       "5. Handle all documented HTTP response codes for ", TokEndpoint,
       "6. Include proper error handling",
       "7. Validate input parameters according to the schema",
       "8. Return the exact response type from the OpenAPI spec",
       "9. Include a simple usage example of the client function/class",
       "10. Code must be production-ready and compile without errors",
       "11. NO server code, NO demo endpoints, NO HTTP handlers",
       "RESPONSE FORMAT - CLIENT CODE ONLY:",
       "'''", TokLanguageExtension,
       "// Client code for ", TokEndpoint, " endpoint only",
       "'''",
       "Generate ONLY the client library code for integrating with ", TokEndpoint,
       ". Do not include any server implementation." >>

\* --------------------------------------------------------- getOpenAPISpec
\* A schema, parameter, response or header set is modelled by the sequence of
\* the $ref targets it contains; an operation keeps its own fields.  The
\* description of an operation is text (a sequence of atoms).
\* mutant: the reference to the Retry-After header is spelled as the header
Ref_Misspelled(kind, name) ==
    [kind |-> kind, name |-> IF name = "RetryAfter" THEN "Retry-After" ELSE name]

Ref(kind, name) == [kind |-> kind, name |-> name]

QuotesPost ==
    [summary |-> "Obtain a locked FX quote",
     description |->
        <<"Exactly one of from_amount or to_amount is required.  A quote_id inside the response must be supplied to **POST ",
          PaymentsPath, "** within valid_until.">>,
     tags |-> <<"Quote">>,
     operationId |-> "createQuote",
     parameters |-> <<Ref("parameters", "IdempotencyKey")>>,
     requestBody |-> Ref("schemas", "QuoteRequest"),
     responses |-> <<Ref("responses", "EventQuote"), Ref("responses", "Error"),
                     Ref("responses", "AuthError"), Ref("responses", "Conflict"),
                     Ref("responses", "RateLimit")>>]

PaymentsPost ==
    [summary |-> "Submit a payment using a quote",
     tags |-> <<"Payment">>,
     operationId |-> "submitPayment",
     parameters |-> <<Ref("parameters", "IdempotencyKey")>>,
     requestBody |-> Ref("schemas", "PaymentRequest"),
     responses |-> <<Ref("responses", "EventPayment"), Ref("responses", "Error"),
                     Ref("responses", "AuthError"), Ref("responses", "Conflict"),
                     Ref("responses", "Unprocessable"), Ref("responses", "RateLimit")>>]

OpenAPIPaths ==
    (QuotesPath :> [post |-> QuotesPost]) @@ (PaymentsPath :> [post |-> PaymentsPost])

OpenAPIComponents ==
    [securitySchemes |-> [BearerAuth |-> <<>>],
     parameters |-> [IdempotencyKey |-> <<>>, PageSize |-> <<>>, Cursor |-> <<>>],
     schemas |->
        [UnixTime |-> <<>>,
         Amount |-> <<>>,
         QuoteRequest |-> <<Ref("schemas", "Amount"), Ref("schemas", "Amount"),
                            Ref("schemas", "UnixTime")>>,
         QuoteData |-> <<Ref("schemas", "UnixTime")>>,
         PaymentRequest |-> <<>>,
         PaymentData |-> <<Ref("schemas", "UnixTime")>>,
         EventEnvelope |-> <<Ref("schemas", "UnixTime")>>,
         Error |-> <<>>],
     responses |->
        [EventQuote |-> <<Ref("headers", "RateLimit"), Ref("schemas", "EventEnvelope"),
                          Ref("schemas", "QuoteData")>>,
         EventPayment |-> <<Ref("headers", "RateLimit"), Ref("schemas", "EventEnvelope"),
                            Ref("schemas", "PaymentData")>>,
         Error |-> <<Ref("schemas", "Error")>>,
         AuthError |-> <<Ref("schemas", "Error")>>,
         Conflict |-> <<Ref("schemas", "Error")>>,
         Unprocessable |-> <<Ref("schemas", "Error")>>,
         RateLimit |-> <<Ref("headers", "RetryAfter"), Ref("schemas", "Error")>>],
     headers |-> [RateLimit |-> <<>>, RetryAfter |-> <<>>]]

getOpenAPISpec ==
    [openapi |-> "3.1.0",
     info |-> [title |-> "Tesser FX Quote & Payment API", version |-> "1.0.0"],
     servers |-> <<"https://api.tesser.com/v1">>,
     paths |-> OpenAPIPaths,
     components |-> OpenAPIComponents]

\* descriptions other than the one of the source, for the functions that take
\* the description as an argument
MinimalOperation(m) == [operationId |-> m]

RefundsPath == "/refunds"

\* a JSON null where an object is expected: a falsy value
NullValue == [null |-> TRUE]

WithPaths(paths) == [getOpenAPISpec EXCEPT !.paths = paths]

Subsets4 == SUBSET {"post", "get", "put", "delete"}

DescVariants ==
    {getOpenAPISpec,
     [f \in {"openapi", "info", "servers", "components"} |-> getOpenAPISpec[f]],
     [f \in {"openapi", "paths"} |-> getOpenAPISpec[f]],
     WithPaths(PaymentsPath :> [post |-> PaymentsPost]),
     WithPaths(QuotesPath :> [post |-> QuotesPost]),
     [getOpenAPISpec EXCEPT !.components =
        [securitySchemes |-> [ApiKey |-> <<>>],
         schemas |-> [QuoteRequest |-> <<>>, PaymentData |-> <<>>]]]}
    \cup {WithPaths(OpenAPIPaths @@ (RefundsPath :> [m \in ms |-> MinimalOperation(m)])) :
            ms \in Subsets4}
    \cup {WithPaths((QuotesPath :> [m \in ms |-> MinimalOperation(m)])
                    @@ (PaymentsPath :> [post |-> PaymentsPost])) :
            ms \in {{}, {"get"}, {"put", "delete"}}}
    \cup {WithPaths(OpenAPIPaths @@ (RefundsPath :> NullValue)),
          WithPaths((QuotesPath :> NullValue)
                    @@ (PaymentsPath :> [post |-> PaymentsPost]))}

\* ----------------------------------------------------- getEndpointDetails
\* endpoint is a key of spec.paths
IsPathKey(spec, endpoint) ==
    /\ "paths" \in DOMAIN spec
    /\ endpoint \in DOMAIN spec.paths

\* mutant: the path is looked for among the keys, whatever its value
HasPath_KeyOnly(spec, endpoint) == IsPathKey(spec, endpoint)

\* spec.paths?.[endpoint] is truthy: the test !path of getEndpointDetails and
\* !endpointPath of generateCode fails
HasPath(spec, endpoint) ==
    /\ IsPathKey(spec, endpoint)
    /\ spec.paths[endpoint] # NullValue

\* mutant: GET is preferred to POST
MethodPriority_GetFirst == <<"get", "post", "put", "delete">>

MethodPriority == <<"post", "get", "put", "delete">>

\* path.post || path.get || path.put || path.delete: the populated methods in
\* the order of the || chain
PopulatedMethods(path) == SelectSeq(MethodPriority, LAMBDA m : m \in DOMAIN path)

\* x.f || dflt
OrDefault(x, f, dflt) == IF f \in DOMAIN x THEN x[f] ELSE dflt

\* x.f with no default: the value and whether it is defined
Field(x, f) ==
    IF f \in DOMAIN x
    THEN [defined |-> TRUE, value |-> x[f]]
    ELSE [defined |-> FALSE, value |-> <<>>]

getEndpointDetails(spec, endpoint) ==
    IF ~HasPath(spec, endpoint)
    THEN [kind |-> "string", text |-> "Endpoint not found in specification"]
    ELSE LET path == spec.paths[endpoint]
             found == PopulatedMethods(path)
         IN  IF found = <<>>
             THEN [kind |-> "string",
                   text |-> "No supported HTTP method found for endpoint"]
             ELSE LET method == path[Head(found)]
                  IN  [kind |-> "details",
                       via |-> Head(found),
                       summary |-> OrDefault(method, "summary", ""),
                       description |-> OrDefault(method, "description", <<>>),
                       operationId |-> OrDefault(method, "operationId", ""),
                       hasRequestSchema |-> "requestBody" \in DOMAIN method,
                       responses |-> Field(method, "responses"),
                       parameters |-> OrDefault(method, "parameters", <<>>),
                       tags |-> OrDefault(method, "tags", <<>>)]

\* ------------------------------------------- generateCode: relevantSpec
\* a?.b?.c : the value and whether it is defined
Lookup(obj, outer, key) ==
    IF outer \in DOMAIN obj /\ key \in DOMAIN obj[outer]
    THEN [defined |-> TRUE, value |-> obj[outer][key]]
    ELSE [defined |-> FALSE, value |-> <<>>]

QuoteSchemaNames ==
    <<"QuoteRequest", "QuoteData", "EventEnvelope", "Error", "Amount", "UnixTime">>

PaymentSchemaNames ==
    <<"PaymentRequest", "PaymentData", "EventEnvelope", "Error", "UnixTime">>

\* mutant: both spreads are taken whatever the endpoint
RelevantSchemaNames_Both(endpoint) ==
    QuoteSchemaNames \o <<"PaymentRequest", "PaymentData">>

\* the keys of the two spread objects, in insertion order
RelevantSchemaNames(endpoint) ==
    (IF endpoint = QuotesPath THEN QuoteSchemaNames ELSE <<>>)
        \o (IF endpoint = PaymentsPath THEN PaymentSchemaNames ELSE <<>>)

SeqRange(s) == {s[k] : k \in 1..Len(s)}

Components(spec) == IF "components" \in DOMAIN spec THEN spec.components ELSE <<>>

\* mutant: the paths of the description are copied whole
RelevantSpec_AllPaths(spec, endpoint) ==
    [info |-> [title |-> Lookup(spec, "info", "title"),
               version |-> Lookup(spec, "info", "version")],
     servers |-> OrDefault(spec, "servers", <<>>),
     paths |-> spec.paths,
     components |->
        [schemas |-> [k \in SeqRange(RelevantSchemaNames(endpoint)) |->
                        Lookup(Components(spec), "schemas", k)],
         schemaOrder |-> RelevantSchemaNames(endpoint),
         securitySchemes |->
            [BearerAuth |-> Lookup(Components(spec), "securitySchemes", "BearerAuth")],
         parameters |->
            [IdempotencyKey |-> Lookup(Components(spec), "parameters", "IdempotencyKey")]]]

\* defined for an endpoint with HasPath(spec, endpoint)
RelevantSpec(spec, endpoint) ==
    [info |-> [title |-> Lookup(spec, "info", "title"),
               version |-> Lookup(spec, "info", "version")],
     servers |-> OrDefault(spec, "servers", <<>>),
     paths |-> (endpoint :> spec.paths[endpoint]),
     components |->
        [schemas |-> [k \in SeqRange(RelevantSchemaNames(endpoint)) |->
                        Lookup(Components(spec), "schemas", k)],
         schemaOrder |-> RelevantSchemaNames(endpoint),
         securitySchemes |->
            [BearerAuth |-> Lookup(Components(spec), "securitySchemes", "BearerAuth")],
         parameters |->
            [IdempotencyKey |-> Lookup(Components(spec), "parameters", "IdempotencyKey")]]]

\* ------------------------------------------------------- JSON.stringify
RefText(r) == <<"$ref", "#/components/", r.kind, "/", r.name>>

RefsText(refs) == Concat([k \in 1..Len(refs) |-> RefText(refs[k])])

\* a key whose value is undefined is left out
MemberText(key, v) == IF v.defined THEN <<key>> \o RefsText(v.value) ELSE <<>>

StringMemberText(key, v) == IF v.defined THEN <<key, v.value>> ELSE <<>>

OperationText(op) ==
    (IF "summary" \in DOMAIN op THEN <<"summary", op.summary>> ELSE <<>>)
    \o (IF "description" \in DOMAIN op THEN <<"description">> \o op.description ELSE <<>>)
    \o (IF "tags" \in DOMAIN op THEN <<"tags">> \o op.tags ELSE <<>>)
    \o (IF "operationId" \in DOMAIN op THEN <<"operationId", op.operationId>> ELSE <<>>)
    \o (IF "parameters" \in DOMAIN op
        THEN <<"parameters">> \o RefsText(op.parameters) ELSE <<>>)
    \o (IF "requestBody" \in DOMAIN op
        THEN <<"requestBody">> \o RefText(op.requestBody) ELSE <<>>)
    \o (IF "responses" \in DOMAIN op
        THEN <<"responses">> \o RefsText(op.responses) ELSE <<>>)

\* the order in which the methods of a path item are written out
AllMethods == <<"post", "get", "put", "delete">>

PathItemText(path) ==
    Concat([k \in 1..Len(AllMethods) |->
              IF AllMethods[k] \in DOMAIN path
              THEN <<AllMethods[k]>> \o OperationText(path[AllMethods[k]])
              ELSE <<>>])

JSONStringify(rel) ==
    LET endpoint == CHOOSE e \in DOMAIN rel.paths : TRUE
        names == rel.components.schemaOrder
    IN  <<"info">> \o StringMemberText("title", rel.info.title)
        \o StringMemberText("version", rel.info.version)
        \o <<"servers">> \o rel.servers
        \o <<"paths", endpoint>> \o PathItemText(rel.paths[endpoint])
        \o <<"components", "schemas">>
        \o Concat([k \in 1..Len(names) |->
                     MemberText(names[k], rel.components.schemas[names[k]])])
        \o <<"securitySchemes">>
        \o MemberText("BearerAuth", rel.components.securitySchemes.BearerAuth)
        \o <<"parameters">>
        \o MemberText("IdempotencyKey", rel.components.parameters.IdempotencyKey)

\* -------------------------------------------- String.prototype.replace
\* In a replacement string "$&" stands for the matched text and "$$" for "$".
MatchRef == "$&"
DollarEscape == "$$"

Expand(replacement, matched) ==
    [k \in 1..Len(replacement) |->
        IF replacement[k] = MatchRef THEN matched
        ELSE IF replacement[k] = DollarEscape THEN "$"
        ELSE replacement[k]]

\* mutant: a replace without the g flag, which replaces the first match only
ReplaceAll_First(text, token, replacement) ==
    IF ~Contains(text, token) THEN text
    ELSE LET first == CHOOSE k \in 1..Len(text) :
                         text[k] = token /\ \A e \in 1..(k - 1) : text[e] # token
         IN  SubSeq(text, 1, first - 1) \o Expand(replacement, token)
             \o SubSeq(text, first + 1, Len(text))

\* text.replace(/token/g, replacement): one left-to-right pass over text; the
\* text put in is not scanned again
RECURSIVE ReplaceAll(_, _, _)
ReplaceAll(text, token, replacement) ==
    IF Len(text) = 0 THEN <<>>
    ELSE IF Len(text) = 1
    THEN (IF text[1] = token THEN Expand(replacement, token) ELSE text)
    ELSE LET half == Len(text) \div 2
         IN  ReplaceAll(SubSeq(text, 1, half), token, replacement)
             \o ReplaceAll(SubSeq(text, half + 1, Len(text)), token, replacement)

\* the five chained replaces of generateCode
AssemblePrompt(template, endpoint, name, extension, specText, endpointInfo) ==
    LET t1 == ReplaceAll(template, TokEndpoint, endpoint)
        t2 == ReplaceAll(t1, TokLanguage, name)
        t3 == ReplaceAll(t2, TokLanguageExtension, extension)
        t4 == ReplaceAll(t3, TokOpenApiSpec, specText)
    IN  ReplaceAll(t4, TokEndpointSpecificInfo, endpointInfo)

\* ------------------------------------------------ handlers: endpointInfo
IncludeTypesLine(includeTypes) ==
    IF includeTypes
    THEN <<"- Include full TypeScript interfaces matching OpenAPI schemas">>
    ELSE <<>>

QuoteEndpointInfo(includeTypes) ==
    << "TESSER FX ", QuotesPath, " ENDPOINT:",
       "This endpoint creates a locked FX quote that can be used for currency exchange.",
       "KEY REQUIREMENTS FROM OPENAPI SPEC:",
       "- POST to ", QuotesPath,
       "- Required: to_currency field",
       "- Either from_amount OR to_amount is required (mutually exclusive)",
       "- Optional fields: client_quote_id, from_currency, quote_time, rules, compliance",
       "- Returns EventEnvelope with type \"quote.created\" and QuoteData in data field",
       "- Quote includes: id, valid_until (unix timestamp), quotes array with rates",
       "- Amount format must match: ^[0-9]+(.[0-9]{1,18})?$",
       "AUTHENTICATION & HEADERS:",
       "- Bearer token authentication required",
       "- Optional Idempotency-Key header (max 255 bytes)",
       "- Content-Type: application/json",
       "ERROR RESPONSES:",
       "- 400: Validation errors (bad request format)",
       "- 401: Authentication failed",
       "- 409: Conflict (idempotency key reused)",
       "- 429: Rate limit exceeded (with Retry-After header)",
       "INTEGRATION NOTES:",
       "- Store the quote.id for subsequent payment submission",
       "- Monitor valid_until timestamp for quote expiration",
       "- Handle rate limiting with exponential backoff" >>
    \o IncludeTypesLine(includeTypes)

PaymentEndpointInfo(includeTypes) ==
    << "TESSER FX ", PaymentsPath, " ENDPOINT:",
       "This endpoint submits a payment using a previously obtained quote.",
       "KEY REQUIREMENTS FROM OPENAPI SPEC:",
       "- POST to ", PaymentsPath,
       "- Required: quote_id (from previous ", QuotesPath, " response)",
       "- Optional: client_payment_id for tracking",
       "- Returns EventEnvelope with payment event type and PaymentData",
       "- Event types: ", "payment.created", ", ", "payment.settled", ", ",
       "payment.rejected",
       "AUTHENTICATION & HEADERS:",
       "- Bearer token authentication required",
       "- Optional Idempotency-Key header (max 255 bytes)",
       "- Content-Type: application/json",
       "ERROR RESPONSES:",
       "- 400: Validation errors (malformed request)",
       "- 401: Authentication failed",
       "- 409: Conflict (quote already used, idempotency key reused)",
       "- 422: Business logic errors (insufficient balance, expired quote)",
       "- 429: Rate limit exceeded (with Retry-After header)",
       "PAYMENT LIFECYCLE:",
       "1. ", "payment.created", " - Payment initiated successfully",
       "2. ", "payment.settled", " - Payment completed successfully  ",
       "3. ", "payment.rejected", " - Payment failed (check reason field)",
       "INTEGRATION NOTES:",
       "- Must use valid, unexpired quote_id from ", QuotesPath, " endpoint",
       "- Payment processing is asynchronous",
       "- Monitor change field for payment state transitions",
       "- Handle rejection reasons appropriately" >>
    \o IncludeTypesLine(includeTypes)

\* --------------------------------------------------------- generateCode
\* generateCode up to the await of anthropic.messages.create: either the
\* prompt that is sent, or the error thrown before any call is made.
GenerateCodePrompt(spec, endpoint, language, endpointInfo) ==
    IF ~HasPath(spec, endpoint)
    THEN [ok |-> FALSE, prompt |-> <<>>,
          error |-> <<"Endpoint ", endpoint, " not found in OpenAPI specification">>]
    ELSE IF language \notin SupportedLanguage
    THEN [ok |-> FALSE, prompt |-> <<>>,
          error |-> <<"Cannot read properties of undefined (reading 'name')">>]
    ELSE [ok |-> TRUE, error |-> <<>>,
          prompt |-> AssemblePrompt(getPromptTemplate, <<endpoint>>,
                                    <<LANGUAGE_CONFIG[language].name>>,
                                    <<LANGUAGE_CONFIG[language].extension>>,
                                    JSONStringify(RelevantSpec(spec, endpoint)),
                                    endpointInfo)]

FailedToGenerate(message) ==
    [ok |-> FALSE, text |-> <<>>, error |-> <<"Failed to generate code: ">> \o message]

\* mutant: the response's shape is not checked; a missing text reads as ""
GenerateCodeReturn_NoShapeCheck(response) ==
    IF response.outcome = "rejectError" THEN FailedToGenerate(response.message)
    ELSE IF response.outcome = "rejectOther" THEN FailedToGenerate(<<"Unknown error">>)
    ELSE IF response.hasContent /\ Len(response.content) > 0
    THEN [ok |-> TRUE, text |-> response.content[1].text, error |-> <<>>]
    ELSE [ok |-> TRUE, text |-> <<>>, error |-> <<>>]

\* generateCode from the settling of anthropic.messages.create on: the try
\* block's checks of the response and the catch that rethrows.
GenerateCodeReturn(response) ==
    IF response.outcome = "rejectError" THEN FailedToGenerate(response.message)
    ELSE IF response.outcome = "rejectOther" THEN FailedToGenerate(<<"Unknown error">>)
    ELSE IF ~response.hasContent \/ Len(response.content) = 0
    THEN FailedToGenerate(<<"No content in response from Claude">>)
    ELSE LET content == response.content[1]
         IN  IF content.type = "null"
             THEN FailedToGenerate(<<"Empty content block in response">>)
             ELSE IF content.type = "text"
             THEN IF content.hasText
                  THEN [ok |-> TRUE, text |-> content.text, error |-> <<>>]
                  ELSE FailedToGenerate(
                          <<"Cannot read properties of undefined (reading 'length')">>)
             ELSE FailedToGenerate(<<"Unexpected response format from Claude">>)

\* ------------------------------------------------------- handler results
\* a handler's return value; thrown marks a handler that threw instead
TextResult(text) == [thrown |-> FALSE, content |-> <<[type |-> "text", text |-> text]>>]

\* mutant: the handler's catch rethrows
ErrorResult_Rethrown(message) == [thrown |-> TRUE, content |-> <<>>]

ErrorResult(message) == TextResult(<<"Error", " generating code: ">> \o message)

EchoResult(message) == TextResult(<<"Tool echo: ", message>>)

IntegrationNotes == "## Integration Notes:"

\* mutant: the notes are returned as a content block of their own
QuoteResult_NotesBlock(language, generatedCode) ==
    [thrown |-> FALSE,
     content |->
        <<[type |-> "text",
           text |-> <<"# Tesser FX Quote Integration (",
                      LANGUAGE_CONFIG[language].name, ")">> \o generatedCode],
          [type |-> "text", text |-> <<IntegrationNotes>>]>>]

QuoteResult(language, generatedCode) ==
    TextResult(
        <<"# Tesser FX Quote Integration (", LANGUAGE_CONFIG[language].name, ")">>
        \o generatedCode
        \o << IntegrationNotes,
              "- This code follows the official Tesser FX OpenAPI specification",
              "- Replace 'your-api-key-here' with your actual Tesser API key",
              "- The quote_id from the response must be used for payment submission",
              "- Quotes have limited validity - check valid_until timestamp",
              "- Implement proper retry logic for 429 (rate limit) responses" >>)

\* mutant: the title names no language
PaymentResult_NoName(language, generatedCode) ==
    TextResult(<<"# Tesser FX Payment Integration">> \o generatedCode
               \o <<IntegrationNotes>>)

PaymentResult(language, generatedCode) ==
    TextResult(
        <<"# Tesser FX Payment Integration (", LANGUAGE_CONFIG[language].name, ")">>
        \o generatedCode
        \o << IntegrationNotes,
              "- This code follows the official Tesser FX OpenAPI specification",
              "- Replace 'your-api-key-here' with your actual Tesser API key",
              "- The quote_id must be from a recent, valid ", QuotesPath, " response",
              "- Payment processing is asynchronous - monitor status changes",
              "- Implement proper error handling for all payment states",
              "- Handle 422 errors (business logic failures) gracefully" >>)

\* ------------------------------------------------------------ tool host
\* z.enum([...]) of the language argument of both code-generation tools
LanguageEnum == {"typescript", "javascript", "python", "go", "rust", "cpp"}

\* mutant: the language argument is not validated
ValidLanguage_Unchecked(language) == TRUE

ValidLanguage(language) == language \in LanguageEnum

\* z.boolean().optional().default(true); the argument as sent is "true",
\* "false" or "absent"
ParseIncludeTypes(raw) == IF raw = "absent" THEN TRUE ELSE raw = "true"

\* z.string() of the message argument of echo
ValidMessage(message) == message.isString

\* argument values callers send
LanguageInputs == LanguageEnum \cup {"java"}
IncludeTypesInputs == {"absent", "true", "false"}
MessageInputs ==
    {[isString |-> TRUE, value |-> "hello"], [isString |-> TRUE, value |-> ""],
     [isString |-> FALSE, value |-> "42"]}

NoMessage == [isString |-> FALSE, value |-> "-"]

NoResult == [thrown |-> FALSE, content |-> <<>>]

\* what anthropic.messages.create can settle with
TextBlock(text) == [type |-> "text", hasText |-> TRUE, text |-> text]

Resolved(content) ==
    [outcome |-> "resolve", hasContent |-> TRUE, content |-> content, message |-> <<>>]

NoResponse == [outcome |-> "none", hasContent |-> FALSE, content |-> <<>>, message |-> <<>>]

FailureResponses ==
    {[outcome |-> "rejectError", hasContent |-> FALSE, content |-> <<>>,
      message |-> <<"Connection error.">>],
     [outcome |-> "rejectOther", hasContent |-> FALSE, content |-> <<>>, message |-> <<>>],
     [outcome |-> "resolve", hasContent |-> FALSE, content |-> <<>>, message |-> <<>>],
     Resolved(<<>>),
     Resolved(<<[type |-> "null", hasText |-> FALSE, text |-> <<>>]>>),
     Resolved(<<[type |-> "tool_use", hasText |-> FALSE, text |-> <<>>]>>),
     Resolved(<<[type |-> "text", hasText |-> FALSE, text |-> <<>>]>>)}

\* a completion that only reports the size of the prompt, one that is client
\* code naming both endpoints, and an empty one
TextResponses(prompt) ==
    {Resolved(<<TextBlock(<<ToString(Len(prompt))>>)>>),
     Resolved(<<TextBlock(<<"// client for ", QuotesPath, " and ", PaymentsPath>>),
                [type |-> "tool_use", hasText |-> FALSE, text |-> <<>>]>>),
     Resolved(<<TextBlock(<<>>)>>)}

Responses(prompt) == FailureResponses \cup TextResponses(prompt)

\* ---------------------------------------------------------------- state
VARIABLES
    openApiSpec,   \* the description getOpenAPISpec returns
    inv,           \* the tool invocations of the host, by invocation id
    fn             \* a function of the module applied on its own: its
                   \* arguments and what it returned

vars == <<openApiSpec, inv, fn>>

Invocations == 1..MaxInvocations

Idle ==
    [pc |-> "idle", tool |-> "-", language |-> "-", includeTypes |-> "-",
     message |-> NoMessage, prompt |-> <<>>, calls |-> 0,
     response |-> NoResponse, result |-> NoResult]

NoValues == [endpoint |-> <<>>, name |-> <<>>, extension |-> <<>>,
             specText |-> <<>>, endpointInfo |-> <<>>]

FnIdle ==
    [op |-> "none", endpoint |-> "-", template |-> <<>>, values |-> NoValues,
     details |-> [kind |-> "none"], relevant |-> [none |-> TRUE], prompt |-> <<>>]

Init ==
    /\ openApiSpec = getOpenAPISpec
    /\ inv = [i \in Invocations |-> Idle]
    /\ fn = FnIdle

\* echo: the argument is validated, then the handler returns at once
CallEcho(i, message) ==
    /\ inv[i].pc = "idle"
    /\ inv' = [inv EXCEPT ![i] =
                 IF ~ValidMessage(message)
                 THEN [Idle EXCEPT !.pc = "rejected", !.tool = "echo",
                                   !.message = message]
                 ELSE [Idle EXCEPT !.pc = "done", !.tool = "echo",
                                   !.message = message,
                                   !.result = EchoResult(message.value)]]
    /\ UNCHANGED <<openApiSpec, fn>>

\* a code-generation tool up to the await inside generateCode: the arguments
\* are validated, endpointInfo is built and generateCode runs until it sends
\* the prompt or throws, which the handler's catch turns into a result
CallCodeTool(i, tool, endpoint, endpointInfo, language, includeTypes) ==
    /\ inv[i].pc = "idle"
    /\ LET started == [Idle EXCEPT !.tool = tool, !.language = language,
                                   !.includeTypes = includeTypes]
           g == GenerateCodePrompt(openApiSpec, endpoint, language, endpointInfo)
       IN  inv' = [inv EXCEPT ![i] =
                     IF ~ValidLanguage(language)
                     THEN [started EXCEPT !.pc = "rejected"]
                     ELSE IF g.ok
                     THEN [started EXCEPT !.pc = "awaiting", !.prompt = g.prompt,
                                          !.calls = 1]
                     ELSE [started EXCEPT !.pc = "done",
                                          !.result = ErrorResult(g.error)]]
    /\ UNCHANGED <<openApiSpec, fn>>

CallGetQuoteCode(i, language, includeTypes) ==
    CallCodeTool(i, "getQuoteCode", QuotesPath,
                 QuoteEndpointInfo(ParseIncludeTypes(includeTypes)),
                 language, includeTypes)

CallSendPaymentCode(i, language, includeTypes) ==
    CallCodeTool(i, "sendPaymentCode", PaymentsPath,
                 PaymentEndpointInfo(ParseIncludeTypes(includeTypes)),
                 language, includeTypes)

\* the success wrapper of the handler that awaits
SuccessResult(tool, language, generatedCode) ==
    IF tool = "getQuoteCode"
    THEN QuoteResult(language, generatedCode)
    ELSE PaymentResult(language, generatedCode)

\* the result of a handler once generateCode has settled
HandlerResult(tool, language, response) ==
    LET g == GenerateCodeReturn(response)
    IN  IF g.ok THEN SuccessResult(tool, language, g.text) ELSE ErrorResult(g.error)

\* mutant: a failed generation calls the collaborator again
CollaboratorSettles_Retry(i, response) ==
    /\ inv[i].pc = "awaiting"
    /\ inv' = IF GenerateCodeReturn(response).ok
              THEN [inv EXCEPT ![i].pc = "done",
                               ![i].response = response,
                               ![i].result = HandlerResult(inv[i].tool,
                                                           inv[i].language, response)]
              ELSE [inv EXCEPT ![i].calls = @ + 1]
    /\ UNCHANGED <<openApiSpec, fn>>

\* mutant: the language is kept in a variable of the module that the latest
\* caller overwrites
CollaboratorSettles_SharedLanguage(i, response) ==
    /\ inv[i].pc = "awaiting"
    /\ LET last == CHOOSE j \in Invocations :
                      /\ inv[j].pc = "awaiting"
                      /\ \A k \in Invocations : k > j => inv[k].pc # "awaiting"
       IN  inv' = [inv EXCEPT ![i].pc = "done",
                              ![i].response = response,
                              ![i].result = HandlerResult(inv[i].tool,
                                                          inv[last].language, response)]
    /\ UNCHANGED <<openApiSpec, fn>>

\* mutant: a lock is held across the await, so a suspended invocation keeps
\* the later ones from resuming
CollaboratorSettles_Locked(i, response) ==
    /\ inv[i].pc = "awaiting"
    /\ \A j \in Invocations : j < i => inv[j].pc # "awaiting"
    /\ inv' = [inv EXCEPT ![i].pc = "done",
                          ![i].response = response,
                          ![i].result =
                              HandlerResult(inv[i].tool, inv[i].language, response)]
    /\ UNCHANGED <<openApiSpec, fn>>

\* anthropic.messages.create settles: the rest of generateCode and of the
\* handler run
CollaboratorSettles(i, response) ==
    /\ inv[i].pc = "awaiting"
    /\ inv' = [inv EXCEPT ![i].pc = "done",
                          ![i].response = response,
                          ![i].result =
                              HandlerResult(inv[i].tool, inv[i].language, response)]
    /\ UNCHANGED <<openApiSpec, fn>>

\* the response is sent and the invocation's request and result are discarded
Reply(i) ==
    /\ inv[i].pc \in {"done", "rejected"}
    /\ inv' = [inv EXCEPT ![i] = Idle]
    /\ UNCHANGED <<openApiSpec, fn>>

OthersIdle(i) == \A j \in Invocations \ {i} : inv[j].pc = "idle"

\* One caller at a time, with every argument value and every collaborator
\* outcome.
EchoCalled ==
    \E i \in Invocations, m \in MessageInputs : OthersIdle(i) /\ CallEcho(i, m)

GetQuoteCodeCalled ==
    \E i \in Invocations, l \in LanguageInputs, t \in IncludeTypesInputs :
        OthersIdle(i) /\ CallGetQuoteCode(i, l, t)

SendPaymentCodeCalled ==
    \E i \in Invocations, l \in LanguageInputs, t \in IncludeTypesInputs :
        OthersIdle(i) /\ CallSendPaymentCode(i, l, t)

CollaboratorSettled ==
    \E i \in Invocations :
        \E r \in Responses(inv[i].prompt) : CollaboratorSettles(i, r)

Replied == \E i \in Invocations : Reply(i)

Next ==
    \/ EchoCalled
    \/ GetQuoteCodeCalled
    \/ SendPaymentCodeCalled
    \/ CollaboratorSettled
    \/ Replied

Spec == Init /\ [][Next]_vars

\* The same handlers over every description of DescVariants.
InitDesc ==
    /\ openApiSpec \in DescVariants
    /\ inv = [i \in Invocations |-> Idle]
    /\ fn = FnIdle

SpecDesc == InitDesc /\ [][Next]_vars

\* Overlapping invocations: any invocation may start or settle while others
\* are suspended on the collaborator.  The argument values and collaborator
\* outcomes are a part of those of Next.
ConcLanguages == {"python", "rust", "java"}
ConcIncludeTypes == {"false"}
ConcMessages == {[isString |-> TRUE, value |-> "hello"]}

ConcResponses(prompt) ==
    {[outcome |-> "rejectError", hasContent |-> FALSE, content |-> <<>>,
      message |-> <<"Connection error.">>],
     Resolved(<<>>),
     Resolved(<<TextBlock(<<ToString(Len(prompt))>>)>>)}

EchoOverlapped == \E i \in Invocations, m \in ConcMessages : CallEcho(i, m)

GetQuoteCodeOverlapped ==
    \E i \in Invocations, l \in ConcLanguages, t \in ConcIncludeTypes :
        CallGetQuoteCode(i, l, t)

SendPaymentCodeOverlapped ==
    \E i \in Invocations, l \in ConcLanguages, t \in ConcIncludeTypes :
        CallSendPaymentCode(i, l, t)

CollaboratorSettledOverlapped ==
    \E i \in Invocations :
        \E r \in ConcResponses(inv[i].prompt) : CollaboratorSettles(i, r)

NextConc ==
    \/ EchoOverlapped
    \/ GetQuoteCodeOverlapped
    \/ SendPaymentCodeOverlapped
    \/ CollaboratorSettledOverlapped
    \/ Replied

SpecConc == Init /\ [][NextConc]_vars

\* The overlapping invocations when every call to the collaborator settles:
\* the promise of anthropic.messages.create resolves or rejects, and the event
\* loop then runs the continuation of the awaiting generateCode.
SettlesSome(i) ==
    \E r \in ConcResponses(inv[i].prompt) : CollaboratorSettles(i, r)

Fairness == \A i \in Invocations : WF_vars(SettlesSome(i))

SpecLive == Init /\ [][NextConc]_vars /\ Fairness

\* ------------------------------------- the functions applied on their own
\* getEndpointDetails and the narrowing of generateCode, over every
\* description of DescVariants and these endpoint paths
EndpointInputs == {QuotesPath, PaymentsPath, RefundsPath, "/missing"}

InitFn ==
    /\ openApiSpec \in DescVariants
    /\ inv = [i \in Invocations |-> Idle]
    /\ fn \in {[FnIdle EXCEPT !.endpoint = e] : e \in EndpointInputs}

ExtractDetails ==
    /\ fn.op = "none"
    /\ fn' = [fn EXCEPT !.op = "extract",
                        !.details = getEndpointDetails(openApiSpec, fn.endpoint)]
    /\ UNCHANGED <<openApiSpec, inv>>

\* generateCode from its check of the endpoint to relevantSpec
NarrowSpec ==
    /\ fn.op \in {"none", "extract"}
    /\ fn' = IF HasPath(openApiSpec, fn.endpoint)
             THEN [fn EXCEPT !.op = "narrow",
                             !.relevant = RelevantSpec(openApiSpec, fn.endpoint)]
             ELSE [fn EXCEPT !.op = "notFound"]
    /\ UNCHANGED <<openApiSpec, inv>>

NextFn == ExtractDetails \/ NarrowSpec

SpecFn == InitFn /\ [][NextFn]_vars

\* The five chained replaces over every template of at most MaxTemplateLen
\* atoms and the template of the source, with values that are plain, that
\* hold placeholder tokens, or that hold a replacement pattern.
TemplateAtoms == Placeholders \cup {"text"}

Templates ==
    {getPromptTemplate}
        \cup UNION {[1..n -> TemplateAtoms] : n \in 0..MaxTemplateLen}

EndpointValues == {<<QuotesPath>>, <<"see ", TokEndpoint>>, <<TokEndpointSpecificInfo>>,
                   <<MatchRef>>}
NameValues == {<<"Python">>, <<TokEndpoint, TokOpenApiSpec>>}
ExtensionValues == {<<"py">>, <<TokOpenApiSpec>>}
SpecTextValues == {JSONStringify(RelevantSpec(getOpenAPISpec, QuotesPath)), <<TokLanguage>>}
EndpointInfoValues == {QuoteEndpointInfo(TRUE), <<TokEndpointSpecificInfo, DollarEscape>>}

InitAssemble ==
    /\ openApiSpec = getOpenAPISpec
    /\ inv = [i \in Invocations |-> Idle]
    /\ fn \in {[FnIdle EXCEPT !.template = t] : t \in Templates}

Assemble(values) ==
    /\ fn.op = "none"
    /\ fn' = [fn EXCEPT !.op = "assemble",
                        !.values = values,
                        !.prompt = AssemblePrompt(fn.template, values.endpoint,
                                                  values.name, values.extension,
                                                  values.specText, values.endpointInfo)]
    /\ UNCHANGED <<openApiSpec, inv>>

Assembled ==
    \E e \in EndpointValues, n \in NameValues, x \in ExtensionValues,
       t \in SpecTextValues, f \in EndpointInfoValues :
        Assemble([endpoint |-> e, name |-> n, extension |-> x,
                  specText |-> t, endpointInfo |-> f])

NextAssemble == Assembled

SpecAssemble == InitAssemble /\ [][NextAssemble]_vars

\* =============================================================== claims
CodeTools == {"getQuoteCode", "sendPaymentCode"}

EndpointOf(tool) == IF tool = "getQuoteCode" THEN QuotesPath ELSE PaymentsPath

TextOf(result) == result.content[1].text

\* the collaborator returned a completion: a first content block of type text
\* that has a text
IsCompletion(response) ==
    /\ response.outcome = "resolve"
    /\ response.hasContent
    /\ Len(response.content) > 0
    /\ response.content[1].type = "text"
    /\ response.content[1].hasText

\* the result is a generated-code result: a title line, then the code, then
\* the Integration Notes footer
IsGeneratedCodeResult(result) ==
    /\ Len(result.content) = 1
    /\ Len(TextOf(result)) >= 3
    /\ TextOf(result)[1] \in {"# Tesser FX Quote Integration (",
                              "# Tesser FX Payment Integration ("}
    /\ Contains(TextOf(result), IntegrationNotes)

\* the result is one text block that begins "Error generating code:"
IsErrorTextResult(result) ==
    /\ ~result.thrown
    /\ Len(result.content) = 1
    /\ result.content[1].type = "text"
    /\ Len(TextOf(result)) > 2
    /\ SubSeq(TextOf(result), 1, 2) = <<"Error", " generating code: ">>

\* C1: a getQuoteCode or sendPaymentCode invocation whose language is not one
\* of typescript, javascript, python, go, rust, cpp is rejected at argument
\* validation and no call to the collaborator is attempted for it.
C1_InvalidLanguageRejected ==
    \A i \in Invocations :
        (/\ inv[i].tool \in CodeTools
         /\ inv[i].language \notin
               {"typescript", "javascript", "python", "go", "rust", "cpp"})
        => /\ inv[i].pc = "rejected"
           /\ inv[i].calls = 0
           /\ inv[i].prompt = <<>>
           /\ inv[i].result = NoResult

C1_Witness ==
    \E i \in Invocations :
        /\ inv[i].tool = "sendPaymentCode"
        /\ inv[i].language = "java"
        /\ inv[i].pc = "rejected"

\* C2: when code generation fails (the collaborator call rejects, the endpoint
\* is missing from the description, or the response has an unexpected shape)
\* the handler does not throw: it returns one text block that begins
\* "Error generating code:".
C2_Failed(i) ==
    \/ ~HasPath(openApiSpec, EndpointOf(inv[i].tool))
    \/ /\ inv[i].response.outcome # "none"
       /\ ~IsCompletion(inv[i].response)

C2_FailureIsErrorText ==
    \A i \in Invocations :
        (inv[i].tool \in CodeTools /\ inv[i].pc = "done" /\ C2_Failed(i))
        => IsErrorTextResult(inv[i].result)

\* an endpoint missing from the description, and a rejected call, both seen
C2_Witness ==
    \E i \in Invocations :
        /\ inv[i].tool = "getQuoteCode"
        /\ inv[i].pc = "done"
        /\ ~HasPath(openApiSpec, QuotesPath)
        /\ inv[i].calls = 0
        /\ IsErrorTextResult(inv[i].result)

\* C3: when the collaborator's response has no content list, an empty one, or
\* a first block that is not of type text, the result text contains "Error"
\* and is not a generated-code result.
C3_BadShape(response) ==
    /\ response.outcome = "resolve"
    /\ \/ ~response.hasContent
       \/ Len(response.content) = 0
       \/ response.content[1].type # "text"

C3_BadShapeIsError ==
    \A i \in Invocations :
        (inv[i].pc = "done" /\ C3_BadShape(inv[i].response))
        => /\ Len(inv[i].result.content) = 1
           /\ Contains(TextOf(inv[i].result), "Error")
           /\ ~IsGeneratedCodeResult(inv[i].result)

C3_Witness ==
    \E i \in Invocations :
        /\ inv[i].pc = "done"
        /\ inv[i].response.outcome = "resolve"
        /\ inv[i].response.hasContent
        /\ Len(inv[i].response.content) = 1
        /\ inv[i].response.content[1].type = "tool_use"
        /\ Contains(TextOf(inv[i].result), "Error")

\* C4: every result a tool returns, on success and on every error path, is
\* exactly one content block, of type text.
C4_SingleTextBlock ==
    \A i \in Invocations :
        inv[i].pc = "done"
        => /\ ~inv[i].result.thrown
           /\ Len(inv[i].result.content) = 1
           /\ inv[i].result.content[1].type = "text"

\* an error result of a code tool (the echo and success results are reached
\* by the same specification)
C4_Witness ==
    \E i \in Invocations :
        /\ inv[i].pc = "done"
        /\ inv[i].tool = "sendPaymentCode"
        /\ inv[i].response.outcome = "rejectOther"
        /\ Len(inv[i].result.content) = 1

\* C5 as stated: with a completion of arbitrary content, the result text
\* contains the display name of the language and the path of the tool's
\* endpoint.
C5_Original ==
    \A i \in Invocations :
        (inv[i].tool \in CodeTools /\ inv[i].pc = "done"
            /\ IsCompletion(inv[i].response))
        => /\ Contains(TextOf(inv[i].result), LANGUAGE_CONFIG[inv[i].language].name)
           /\ Contains(TextOf(inv[i].result), EndpointOf(inv[i].tool))

\* C5 amended: with a completion of arbitrary content, the result text
\* contains the display name of the language; the path of the tool's endpoint
\* is in the prompt that was sent, and it is in the result text exactly when
\* the completion contains it.
C5_NameAlwaysPathFromCompletion ==
    \A i \in Invocations :
        (inv[i].tool \in CodeTools /\ inv[i].pc = "done"
            /\ IsCompletion(inv[i].response))
        => /\ Contains(TextOf(inv[i].result), LANGUAGE_CONFIG[inv[i].language].name)
           /\ Contains(inv[i].prompt, EndpointOf(inv[i].tool))
           /\ Contains(TextOf(inv[i].result), EndpointOf(inv[i].tool))
                <=> Contains(inv[i].response.content[1].text, EndpointOf(inv[i].tool))

\* a completion that only reports the prompt's size, for python
C5_Witness ==
    \E i \in Invocations :
        /\ inv[i].tool = "getQuoteCode"
        /\ inv[i].language = "python"
        /\ inv[i].pc = "done"
        /\ IsCompletion(inv[i].response)
        /\ inv[i].response.content[1].text = <<ToString(Len(inv[i].prompt))>>
        /\ Contains(TextOf(inv[i].result), "Python")
        /\ ~Contains(TextOf(inv[i].result), QuotesPath)

\* C8: the prompt handed to the collaborator contains every negative
\* instruction of the template, unchanged, and the path of the endpoint of the
\* tool invoked.
C8_PromptKeepsInstructions ==
    \A i \in Invocations :
        inv[i].calls > 0
        => /\ \A n \in {"- DO NOT generate any HTTP server code",
                        "- DO NOT generate any demo endpoints (/demo, /, /quote, etc.)",
                        "- DO NOT generate any server routes or handlers  ",
                        "- DO NOT generate any Bun.serve() or Express server code",
                        "- DO NOT generate any console.log statements about \"running on port\""} :
                Contains(inv[i].prompt, n)
           /\ Contains(inv[i].prompt, EndpointOf(inv[i].tool))

C8_Witness ==
    \E i \in Invocations :
        /\ inv[i].tool = "sendPaymentCode"
        /\ inv[i].language = "cpp"
        /\ inv[i].pc = "awaiting"
        /\ inv[i].calls = 1
        /\ Contains(inv[i].prompt, PaymentsPath)

\* C9: nothing is retried: an accepted invocation issues at most one call to
\* the collaborator, also when the call fails or returns an empty or non-text
\* response, and an invocation that has returned has none outstanding.
C9_AtMostOneCall ==
    \A i \in Invocations :
        /\ inv[i].calls <= 1
        /\ inv[i].response.outcome # "none" => inv[i].pc = "done"

C9_Witness ==
    \E i \in Invocations, j \in Invocations :
        /\ i # j
        /\ inv[i].pc = "done" /\ inv[i].calls = 1 /\ ~IsCompletion(inv[i].response)
        /\ inv[j].pc = "awaiting" /\ inv[j].calls = 1

C6_Steps ==
    <<[token |-> "{{ENDPOINT}}", field |-> "endpoint"],
      [token |-> "{{LANGUAGE}}", field |-> "name"],
      [token |-> "{{LANGUAGE_EXTENSION}}", field |-> "extension"],
      [token |-> "{{OPENAPI_SPEC}}", field |-> "specText"],
      [token |-> "{{ENDPOINT_SPECIFIC_INFO}}", field |-> "endpointInfo"]>>

\* no value holds the token of its own or of an earlier step, nor the pattern
\* that puts the matched text back
C6_PlainValues(values) ==
    \A k \in 1..5 :
        /\ ~Contains(values[C6_Steps[k].field], "$&")
        /\ \A e \in 1..k : ~Contains(values[C6_Steps[k].field], C6_Steps[e].token)

C7_SchemaKeysByEndpoint ==
    fn.op = "narrow"
    => DOMAIN fn.relevant.components.schemas =
         (IF fn.endpoint = "/quotes"
          THEN {"QuoteRequest", "QuoteData", "EventEnvelope", "Error", "Amount",
                "UnixTime"}
          ELSE IF fn.endpoint = "/payments"
          THEN {"PaymentRequest", "PaymentData", "EventEnvelope", "Error", "UnixTime"}
          ELSE {})

\* another endpoint of the description narrowed to no schemas
C7_Witness ==
    /\ fn.op = "narrow"
    /\ fn.endpoint = RefundsPath
    /\ HasPath(openApiSpec, RefundsPath)
    /\ DOMAIN fn.relevant.components.schemas = {}

\* C10: overlapping invocations are independent: the prompt an invocation
\* sends and the result it returns are those it produces when run alone with
\* the same arguments and collaborator response; a step of one invocation
\* changes no other invocation, and nothing writes the shared description.
C10_PromptAlone(tool, language, includeTypes) ==
    GenerateCodePrompt(getOpenAPISpec, EndpointOf(tool), language,
                       IF tool = "getQuoteCode"
                       THEN QuoteEndpointInfo(ParseIncludeTypes(includeTypes))
                       ELSE PaymentEndpointInfo(ParseIncludeTypes(includeTypes))).prompt

C10_AsAlone ==
    \A i \in Invocations :
        (inv[i].tool \in CodeTools /\ inv[i].calls = 1)
        => /\ inv[i].prompt =
                C10_PromptAlone(inv[i].tool, inv[i].language, inv[i].includeTypes)
           /\ inv[i].pc = "done"
                => inv[i].result =
                     HandlerResult(inv[i].tool, inv[i].language, inv[i].response)

C10_OneAtATime ==
    /\ openApiSpec' = openApiSpec
    /\ \A i \in Invocations :
          inv'[i] # inv[i] => \A j \in Invocations \ {i} : inv'[j] = inv[j]

C10_Independent == [](C10_AsAlone) /\ [][C10_OneAtATime]_vars

\* one invocation has returned while another, with other arguments, is still
\* suspended on the collaborator
C10_Witness ==
    \E i \in Invocations, j \in Invocations :
        /\ inv[i].pc = "done" /\ inv[i].calls = 1 /\ IsCompletion(inv[i].response)
        /\ inv[j].pc = "awaiting"
        /\ inv[i].tool # inv[j].tool
        /\ inv[i].language # inv[j].language

\* ------------------------------------------------------------------ C11
\* the $ref targets written in an operation
OperationRefs(op) ==
    SeqRange(OrDefault(op, "parameters", <<>>))
        \cup (IF "requestBody" \in DOMAIN op THEN {op.requestBody} ELSE {})
        \cup SeqRange(OrDefault(op, "responses", <<>>))

\* the $ref targets written under paths
PathRefs(spec) ==
    UNION {UNION {OperationRefs(spec.paths[p][m]) : m \in DOMAIN spec.paths[p]} :
             p \in DOMAIN spec.paths}

\* the $ref targets written under components
ComponentRefs(spec) ==
    UNION {UNION {SeqRange(spec.components[kind][name]) :
                    name \in DOMAIN spec.components[kind]} :
             kind \in DOMAIN spec.components}

\* #/components/<kind>/<name> names an entry of the description
RefResolves(spec, r) ==
    /\ r.kind \in DOMAIN spec.components
    /\ r.name \in DOMAIN spec.components[r.kind]

RefKinds(refs) == {r.kind : r \in refs}

\* C11: in the description getOpenAPISpec returns, every $ref written under
\* paths or under components (parameters, schemas, responses, headers) names
\* an entry that exists in the components of the same description.
C11_NoDanglingRef ==
    \A r \in PathRefs(openApiSpec) \cup ComponentRefs(openApiSpec) :
        RefResolves(openApiSpec, r)

\* the description in use by a suspended generation holds references from
\* paths and from components, to entries of all four referenced kinds
C11_Witness ==
    /\ \E i \in Invocations : inv[i].pc = "awaiting"
    /\ RefKinds(PathRefs(openApiSpec)) = {"parameters", "schemas", "responses"}
    /\ RefKinds(ComponentRefs(openApiSpec)) = {"headers", "schemas"}
    /\ Cardinality(PathRefs(openApiSpec) \cup ComponentRefs(openApiSpec)) = 18

\* ------------------------------------------------------------------ C12
\* the endpoint is a key of paths whose path item has none of post, get,
\* put, delete
NoSupportedMethod(spec, endpoint) ==
    /\ HasPath(spec, endpoint)
    /\ PopulatedMethods(spec.paths[endpoint]) = <<>>

\* C12: if the endpoint of a code tool is absent from the description, or is
\* present but has none of the POST/GET/PUT/DELETE methods, the invocation
\* ends with an error-text result and not with a generated-code result.
C12_DegradesToError ==
    \A i \in Invocations :
        (/\ inv[i].tool \in CodeTools
         /\ inv[i].pc = "done"
         /\ \/ ~HasPath(openApiSpec, EndpointOf(inv[i].tool))
            \/ NoSupportedMethod(openApiSpec, EndpointOf(inv[i].tool)))
        => /\ IsErrorTextResult(inv[i].result)
           /\ ~IsGeneratedCodeResult(inv[i].result)

\* ------------------------------------------------------------------ C13
NotFoundIndicator ==
    [kind |-> "string", text |-> "Endpoint not found in specification"]

NoMethodIndicator ==
    [kind |-> "string", text |-> "No supported HTTP method found for endpoint"]

\* getEndpointDetails returned: a details record or one of the two indicators
C13_Returned ==
    \/ fn.details.kind = "details"
    \/ fn.details \in {NotFoundIndicator, NoMethodIndicator}

\* C13 as stated: getEndpointDetails returns, and the not-found indicator is
\* returned exactly when the endpoint is not a key of spec.paths.
C13_Original ==
    fn.op = "extract"
    => /\ C13_Returned
       /\ fn.details = NotFoundIndicator <=> ~IsPathKey(openApiSpec, fn.endpoint)

\* C13: for every description (one with no paths mapping included) and every
\* endpoint path getEndpointDetails returns a details record or an indicator;
\* the not-found indicator is returned exactly when the endpoint is not a key
\* of spec.paths or is a key whose value is null.
C13_NotFoundWhenAbsentOrNull ==
    fn.op = "extract"
    => /\ C13_Returned
       /\ fn.details = NotFoundIndicator
            <=> \/ "paths" \notin DOMAIN openApiSpec
                \/ fn.endpoint \notin DOMAIN openApiSpec.paths
                \/ openApiSpec.paths[fn.endpoint] = NullValue

\* the extractor applied to a key of paths whose value is null
C13_Witness ==
    /\ fn.op = "extract"
    /\ IsPathKey(openApiSpec, fn.endpoint)
    /\ openApiSpec.paths[fn.endpoint] = NullValue
    /\ fn.details = NotFoundIndicator

\* ------------------------------------------------------------------ C14
\* the methods among POST, GET, PUT, DELETE populated on a path item
C14_Populated(path) == DOMAIN path \cap {"post", "get", "put", "delete"}

\* POST if populated, else GET, else PUT, else DELETE
C14_Preferred(ms) ==
    IF "post" \in ms THEN "post"
    ELSE IF "get" \in ms THEN "get"
    ELSE IF "put" \in ms THEN "put"
    ELSE "delete"

\* C14: for every subset of {POST, GET, PUT, DELETE} populated on a path,
\* getEndpointDetails reads the details from the first populated method in the
\* order POST, GET, PUT, DELETE, and returns the no-supported-method indicator
\* exactly when the subset is empty.
C14_FirstPopulatedMethod ==
    (fn.op = "extract" /\ HasPath(openApiSpec, fn.endpoint))
    => LET path == openApiSpec.paths[fn.endpoint]
           ms == C14_Populated(path)
       IN  /\ fn.details = NoMethodIndicator <=> ms = {}
           /\ ms # {}
              => /\ fn.details.kind = "details"
                 /\ fn.details.via = C14_Preferred(ms)
                 /\ fn.details.operationId
                      = OrDefault(path[C14_Preferred(ms)], "operationId", "")

\* GET, PUT and DELETE populated without POST: the details are those of GET
C14_Witness ==
    /\ fn.op = "extract"
    /\ fn.endpoint = RefundsPath
    /\ HasPath(openApiSpec, RefundsPath)
    /\ DOMAIN openApiSpec.paths[RefundsPath] = {"get", "put", "delete"}
    /\ fn.details.kind = "details"
    /\ fn.details.operationId = "get"

\* ------------------------------------------------------------------ C15
\* the operation descriptor getEndpointDetails read the details from
C15_Method == openApiSpec.paths[fn.endpoint][fn.details.via]

\* C15: in the details record each of summary, description, operationId,
\* responses, parameters and tags is defaulted when absent from the operation
\* descriptor, the strings to the empty string and the collections to an
\* empty collection, so that none of them is undefined.
C15_FieldsDefaulted ==
    (fn.op = "extract" /\ fn.details.kind = "details")
    => /\ "summary" \notin DOMAIN C15_Method => fn.details.summary = ""
       /\ "description" \notin DOMAIN C15_Method => fn.details.description = <<>>
       /\ "operationId" \notin DOMAIN C15_Method => fn.details.operationId = ""
       /\ "parameters" \notin DOMAIN C15_Method => fn.details.parameters = <<>>
       /\ "tags" \notin DOMAIN C15_Method => fn.details.tags = <<>>
       /\ "responses" \notin DOMAIN C15_Method
            => fn.details.responses = [defined |-> TRUE, value |-> <<>>]
       /\ fn.details.responses.defined

\* the five fields written with a || default are defaulted
C15_AllButResponses ==
    (fn.op = "extract" /\ fn.details.kind = "details")
    => /\ "summary" \notin DOMAIN C15_Method => fn.details.summary = ""
       /\ "description" \notin DOMAIN C15_Method => fn.details.description = <<>>
       /\ "operationId" \notin DOMAIN C15_Method => fn.details.operationId = ""
       /\ "parameters" \notin DOMAIN C15_Method => fn.details.parameters = <<>>
       /\ "tags" \notin DOMAIN C15_Method => fn.details.tags = <<>>

\* ------------------------------------------------------------------ C16
\* the entry components[kind][name] of the description, when it has one
C16_Copied(kind, name) ==
    Lookup(Components(openApiSpec), kind, name).defined
    => fn.relevant.components[kind][name]
         = [defined |-> TRUE, value |-> openApiSpec.components[kind][name]]

\* C16: for every endpoint present in the description the narrowed spec has
\* exactly one key under paths, the requested endpoint, mapped to the
\* descriptor of the description unchanged; its components have the key
\* BearerAuth under securitySchemes and the single key IdempotencyKey under
\* parameters (never PageSize or Cursor), each holding the description's entry.
C16_OnePathAndFixedComponents ==
    fn.op = "narrow"
    => /\ DOMAIN fn.relevant.paths = {fn.endpoint}
       /\ fn.relevant.paths[fn.endpoint] = openApiSpec.paths[fn.endpoint]
       /\ "BearerAuth" \in DOMAIN fn.relevant.components.securitySchemes
       /\ DOMAIN fn.relevant.components.parameters = {"IdempotencyKey"}
       /\ C16_Copied("securitySchemes", "BearerAuth")
       /\ C16_Copied("parameters", "IdempotencyKey")

\* a description with three paths and three parameters narrowed to /payments
C16_Witness ==
    /\ fn.op = "narrow"
    /\ fn.endpoint = PaymentsPath
    /\ DOMAIN openApiSpec.paths = {QuotesPath, PaymentsPath, RefundsPath}
    /\ DOMAIN openApiSpec.components.parameters
         = {"IdempotencyKey", "PageSize", "Cursor"}
    /\ DOMAIN fn.relevant.paths = {PaymentsPath}
    /\ fn.relevant.paths[PaymentsPath] = [post |-> PaymentsPost]
    /\ fn.relevant.components.securitySchemes.BearerAuth.defined
    /\ fn.relevant.components.parameters.IdempotencyKey.defined

\* ------------------------------------------------------------------ C17
\* an accepted invocation has no result while its call to the collaborator is
\* outstanding, and one text result once the call has completed
C17_ResultAfterCall ==
    \A i \in Invocations :
        inv[i].tool \in CodeTools
        => /\ inv[i].pc = "awaiting"
              => /\ inv[i].calls = 1
                 /\ inv[i].response.outcome = "none"
                 /\ inv[i].result = NoResult
           /\ inv[i].pc = "done"
              => /\ inv[i].calls = 1
                 /\ inv[i].response.outcome # "none"
                 /\ Len(inv[i].result.content) = 1

\* a result, once returned, is not replaced: the invocation only goes on to
\* have it sent
C17_OneResult ==
    \A i \in Invocations :
        inv[i].pc = "done" => inv'[i] \in {inv[i], Idle}

\* while another invocation is suspended, an invocation can take its next
\* step: be taken up by a handler (echo, or a code tool up to its argument
\* validation), resume when its own call settles, or have its result sent
C17_NotBlocked ==
    \A i \in Invocations, j \in Invocations :
        (i # j /\ inv[j].pc = "awaiting")
        => /\ inv[i].pc = "idle"
              => /\ ENABLED CallEcho(i, [isString |-> TRUE, value |-> "hello"])
                 /\ ENABLED CallGetQuoteCode(i, "java", "false")
                 /\ ENABLED CallSendPaymentCode(i, "java", "false")
           /\ inv[i].pc = "awaiting" => ENABLED SettlesSome(i)
           /\ inv[i].pc \in {"done", "rejected"} => ENABLED Reply(i)

\* C17: every accepted getQuoteCode or sendPaymentCode invocation returns
\* exactly one result, never before its call to the collaborator has
\* completed with a response or a failure; if every call to the collaborator
\* settles, the invocation eventually returns; an invocation suspended on the
\* collaborator keeps no other invocation from taking its next step.
C17_ReturnsOnceAfterCall ==
    /\ [](C17_ResultAfterCall /\ C17_NotBlocked)
    /\ [][C17_OneResult]_vars
    /\ \A i \in Invocations : (inv[i].pc = "awaiting") ~> (inv[i].pc = "done")

\* the second invocation has returned generated code while the first is
\* still suspended on the collaborator
C17_Witness ==
    /\ inv[1].tool \in CodeTools
    /\ inv[1].pc = "awaiting"
    /\ inv[2].tool \in CodeTools
    /\ inv[2].pc = "done"
    /\ IsCompletion(inv[2].response)
    /\ IsGeneratedCodeResult(inv[2].result)

====
